---- MODULE Spec2Model ----
(***************************************************************************)
(* A model of the exploratory-data-analysis report generator:              *)
(*   src/data_insights.py  (class DataInsights and the print_divider       *)
(*                          decorator),                                    *)
(*   src/utils/printing.py (print_dataframe),                              *)
(*   src/main.py           (the driver).                                   *)
(*                                                                         *)
(* A table (pandas DataFrame) is a record [nrows, cols] where cols is a    *)
(* sequence of columns [name, dtype, vals].  Cell values are integers:     *)
(* numbers stand for themselves, booleans are 0/1, the strings of an       *)
(* object column are numbered 1, 2, ...; NaN is the missing cell.          *)
(* Everything written to the console is an item [k, text, args] appended   *)
(* to the variable out.                                                    *)
(***************************************************************************)
EXTENDS Integers, Sequences, FiniteSets

\* ------------------------------------------------------------------ bounds
\* Rows of the exhaustively enumerated mixed-dtype tables.
MaxRows == 2
\* Rows of the exhaustively enumerated all-numeric three-column tables.
NumericRows == 3
\* Largest number of distinct strings in a tall categorical column.
MaxUnique == 11
\* Largest row/column cap handed to print_dataframe.
MaxCap == 3

\* The missing cell.
NaN == -1
\* Column labels, by position; their number bounds the columns of a table.
Names == <<"A", "B", "C">>
\* Values of numeric cells, and the strings (numbered) of small object columns.
NumVals == {0, 1}
StrVals == {1, 2}

\* ------------------------------------------------------- sequence helpers
RECURSIVE SumSeq(_)
SumSeq(s) == IF s = <<>> THEN 0 ELSE Head(s) + SumSeq(Tail(s))

SeqToSet(s) == {s[i] : i \in 1..Len(s)}

\* ------------------------------------------------------------ the tables
\* pd.DataFrame(): no rows, no columns.
EmptyDataFrame == [nrows |-> 0, cols |-> <<>>]

\* What pd.read_csv infers for a column of n parsed cells: integers without a
\* gap are int64, with a gap float64; True/False are bool; text (with or
\* without gaps, but not gaps alone) is object; a file of a header line only
\* gives object columns of no rows.
InferredColumns(n) ==
    IF n = 0 THEN {[dtype |-> "object", vals |-> <<>>]}
    ELSE {[dtype |-> IF \E i \in 1..n : v[i] = NaN THEN "float64" ELSE "int64", vals |-> v] :
              v \in [1..n -> NumVals \cup {NaN}]}
         \cup {[dtype |-> "bool", vals |-> v] : v \in [1..n -> {0, 1}]}
         \cup {[dtype |-> "object", vals |-> v] :
              v \in {w \in [1..n -> StrVals \cup {NaN}] : \E i \in 1..n : w[i] # NaN}}

MakeTable(n, c) ==
    [nrows |-> n,
     cols |-> [i \in 1..Len(c) |-> [name |-> Names[i], dtype |-> c[i].dtype, vals |-> c[i].vals]]]

\* Every table of at most MaxRows rows and at most two columns.
MixedTables ==
    {MakeTable(n, c) : n \in {0}, c \in UNION {[1..k -> InferredColumns(0)] : k \in 1..2}}
    \cup UNION {{MakeTable(n, c) : c \in UNION {[1..k -> InferredColumns(n)] : k \in 1..2}} :
                    n \in 1..MaxRows}

\* Every table of Len(Names) int64 columns and NumericRows rows.
NumericTables ==
    {MakeTable(NumericRows, c) :
        c \in [1..Len(Names) -> {[dtype |-> "int64", vals |-> v] : v \in [1..NumericRows -> NumVals]}]}

\* A categorical column of u distinct strings 1..u, then r more copies of
\* string 1, then m gaps.
TallColumn(u, r, m) ==
    [dtype |-> "object",
     vals |-> [i \in 1..(u + r + m) |-> IF i <= u THEN i ELSE IF i <= u + r THEN 1 ELSE NaN]]

TallTables ==
    {MakeTable(u + r + m, <<TallColumn(u, r, m)>>) :
        u \in (MaxUnique - 2)..MaxUnique, r \in 0..1, m \in 0..1}

Tables == MixedTables \cup NumericTables \cup TallTables

\* ------------------------------------------------------------- the state
VARIABLES
    srcKind,   \* what is at the path: "ok", "notfound", "malformed"
    srcTable,  \* the table pd.read_csv parses when srcKind = "ok"
    obj,       \* the caller's object: "none", "constructed"
    df,        \* self.df
    out,       \* console output captured since the caller last cleared it
    ret,       \* what the last call returned: "None", or "raised"
    err,       \* the exception that reached the caller, or "none"
    local,     \* the last call's name and the tables it built
    mainPc     \* main(): index of the next statement, 0 when main is not running

vars == <<srcKind, srcTable, obj, df, out, ret, err, local, mainPc>>

\* ------------------------------------------------------------------ output
Line(text, args) == [k |-> "line", text |-> text, args |-> args]

Divider == Line("================", <<80>>)

Banner(text) == <<Divider, Line(text, <<>>), Divider>>

\* What a decorated function hands to its wrapper.
Result(o, l, e) == [out |-> o, local |-> l, raised |-> e]

\* A wrapper that calls the function first and prints the banner after it.
print_divider_after(text, res) ==
    [out |-> res.out \o Banner(text),
     local |-> res.local,
     raised |-> res.raised,
     ret |-> IF res.raised = "none" THEN "None" ELSE "raised"]

\* print_divider's wrapper: the three banner lines, then the function; the
\* function's own return value is dropped, an exception passes through.
print_divider(text, res) ==
    [out |-> Banner(text) \o res.out,
     local |-> res.local,
     raised |-> res.raised,
     ret |-> IF res.raised = "none" THEN "None" ELSE "raised"]

\* ------------------------------------------------------------- __init__
\* The outcome of pd.read_csv(path) for the modelled source.
read_csv(kind, table) ==
    CASE kind = "ok" -> [raised |-> "none", table |-> table]
      [] kind = "notfound" -> [raised |-> "FileNotFoundError", table |-> EmptyDataFrame]
      [] OTHER -> [raised |-> "ParserError", table |-> EmptyDataFrame]

\* An __init__ whose handlers print and do not re-raise.
init_body_swallow(kind, table) ==
    LET r == read_csv(kind, table) IN
    [df |-> r.table, raised |-> "none",
     out |-> <<IF r.raised = "none" THEN Line("Data loaded successfully", <<r.table.nrows, Len(r.table.cols)>>)
               ELSE IF r.raised = "FileNotFoundError" THEN Line("File not found", <<>>)
               ELSE Line("Error loading data", <<r.raised>>)>>]

\* DataInsights.__init__ body: [df, out, raised].
init_body(kind, table) ==
    LET r == read_csv(kind, table) IN
    CASE r.raised = "none" ->
            [df |-> r.table, raised |-> "none",
             out |-> <<Line("Data loaded successfully", <<r.table.nrows, Len(r.table.cols)>>)>>]
      [] r.raised = "FileNotFoundError" ->
            [df |-> EmptyDataFrame, raised |-> r.raised,
             out |-> <<Line("File not found", <<>>)>>]
      [] OTHER ->
            [df |-> EmptyDataFrame, raised |-> r.raised,
             out |-> <<Line("Error loading data", <<r.raised>>)>>]

\* ------------------------------------------------------------ basic_info
basic_info_body(d) ==
    Result(<<Line("Number of rows", <<d.nrows>>),
             Line("Number of columns", <<Len(d.cols)>>),
             Line("Memory usage", <<>>),
             Line("Column Names:", <<>>)>>
           \o [i \in 1..Len(d.cols) |-> Line("enum", <<i, d.cols[i].name>>)],
           [m |-> "basic_info"], "none")

\* ------------------------------------------------ pandas column helpers
\* Series.isnull().sum() of one column.
MissingCount(col) == Cardinality({i \in 1..Len(col.vals) : col.vals[i] = NaN})

\* The non-missing cells of a column, in row order.
NonMissing(col) == SelectSeq(col.vals, LAMBDA v : v # NaN)

\* numpy's dtype hierarchy as DataFrame.select_dtypes reads an include entry:
\* "number" takes the integer and floating dtypes (timedelta64 too, a numpy
\* signed integer) and leaves bool out; "object" takes object alone;
\* "datetime" and "datetime64" take datetime64[ns].
DtypeMatches(dtype, inc) ==
    CASE inc = "number" -> dtype \in {"int64", "float64", "timedelta64[ns]"}
      [] inc = "object" -> dtype = "object"
      [] inc \in {"datetime", "datetime64"} -> dtype = "datetime64[ns]"
      [] OTHER -> FALSE

\* df.select_dtypes(include=...).columns.tolist(): the positions in d.cols of
\* the selected columns, in column order.
select_dtypes(d, include) ==
    SelectSeq([i \in 1..Len(d.cols) |-> i],
              LAMBDA i : \E inc \in include : DtypeMatches(d.cols[i].dtype, inc))

ColumnNames(d, idx) == [j \in 1..Len(idx) |-> d.cols[idx[j]].name]

RECURSIVE InsertByKey(_, _)
\* The entry x = [key, val] put into the sorted s after every entry whose key
\* is not larger.
InsertByKey(x, s) ==
    IF s = <<>> THEN <<x>>
    ELSE IF Head(s).key <= x.key THEN <<Head(s)>> \o InsertByKey(x, Tail(s))
    ELSE <<x>> \o s

RECURSIVE SortByKey(_)
\* The entries [key, val] of s in ascending order of key.  numpy sorts the
\* short arrays modelled here by insertion, which keeps equal keys in their
\* original order.
SortByKey(s) ==
    IF s = <<>> THEN <<>>
    ELSE InsertByKey(s[Len(s)], SortByKey(SubSeq(s, 1, Len(s) - 1)))

\* The values of a sequence of entries [key, val].
Vals(s) == [i \in 1..Len(s) |-> s[i].val]

\* A sequence of integers in ascending order.
SortNumbers(xs) == Vals(SortByKey([i \in 1..Len(xs) |-> [key |-> xs[i], val |-> xs[i]]]))

\* ----------------------------------------------- missing_values_analysis
\* The frame with a per-column percentage (count * 100 / rows) in place of
\* the table-wide one.
missing_record_per_column(d) ==
    [i \in 1..Len(d.cols) |->
        [Columns |-> d.cols[i].name,
         MissingElements |-> MissingCount(d.cols[i]),
         PercentageMissing |-> [num |-> MissingCount(d.cols[i]) * 100, den |-> d.nrows]]]

\* The frame built at lines 60-64, before the filter: one row per column.  The
\* scalar 'Percentage Missing' is broadcast to every row; it is kept as the
\* fraction num/den (den = df.size, 0 for a table without rows, where numpy
\* yields nan).
missing_record_all(d) ==
    LET per == [i \in 1..Len(d.cols) |-> MissingCount(d.cols[i])]
        total == SumSeq(per)
        size == d.nrows * Len(d.cols)
    IN [i \in 1..Len(d.cols) |->
            [Columns |-> d.cols[i].name,
             MissingElements |-> per[i],
             PercentageMissing |-> [num |-> total * 100, den |-> size]]]

\* Line 67: keep the rows with a non-zero count, sort them by the count.
missing_record_df(d) ==
    LET kept == SelectSeq(missing_record_all(d), LAMBDA r : r.MissingElements > 0)
    IN Vals(SortByKey([i \in 1..Len(kept) |-> [key |-> kept[i].MissingElements, val |-> kept[i]]]))

missing_values_analysis_body(d) ==
    LET rec == missing_record_df(d) IN
    Result(IF Len(rec) > 0
           THEN <<Line("Found missing values in dataset!", <<>>), Line("df.to_string", <<d>>)>>
           ELSE <<Line("There are no missing elements in the dataset !!", <<>>)>>,
           [m |-> "missing_values_analysis", missing_record_df |-> rec], "none")

\* ---------------------------------------------------- data_types_summary
\* One of the three report blocks of lines 87-108: the count and a 0-indexed
\* list of the names, or the 'none found' line.
TypeBlock(kind, names) ==
    IF Len(names) > 0
    THEN <<Line("Found columns in dataset", <<Len(names), kind>>)>>
         \o [i \in 1..Len(names) |-> Line("enum", <<i - 1, names[i]>>)]
    ELSE <<Line("No data found in dataset", <<kind>>)>>

data_types_summary_body(d) ==
    LET numeric_columns == ColumnNames(d, select_dtypes(d, {"number"}))
        categorical_columns == ColumnNames(d, select_dtypes(d, {"object"}))
        datetime_columns == ColumnNames(d, select_dtypes(d, {"datetime", "datetime64"}))
    IN Result(TypeBlock("numeric", numeric_columns)
              \o TypeBlock("categorical", categorical_columns)
              \o TypeBlock("datetime", datetime_columns),
              [m |-> "data_types_summary",
               numeric_columns |-> numeric_columns,
               categorical_columns |-> categorical_columns,
               datetime_columns |-> datetime_columns], "none")

\* ------------------------------------------------------------- frames
\* A frame is what the analysis methods build and the printer renders:
\* [index, columns, numeric, data], data[r][c] a cell.  A cell is
\* [kind, v, den]: kind "num" is the number v/den, "sqrt" is sqrt(v)/den,
\* "str" is string number v, "nan" is missing; [kind |-> "mid", lo, hi] is
\* the number halfway between the cells lo and hi; [kind |-> "moment", order]
\* is a standardized moment, whose value the model does not carry.
Cell(kind, v, den) == [kind |-> kind, v |-> v, den |-> den]

NaNCell == Cell("nan", 0, 1)

\* pd.isna(value)
IsNa(c) == c.kind = "nan"

\* pd.api.types.is_numeric_dtype: bool counts as numeric.
is_numeric_dtype(dtype) == dtype \in {"int64", "float64", "bool", "timedelta64[ns]"}

\* The loaded table as a frame: RangeIndex 0..nrows-1.
DfFrame(d) ==
    [index |-> [r \in 1..d.nrows |-> r - 1],
     columns |-> [c \in 1..Len(d.cols) |-> d.cols[c].name],
     numeric |-> [c \in 1..Len(d.cols) |-> is_numeric_dtype(d.cols[c].dtype)],
     data |-> [r \in 1..d.nrows |-> [c \in 1..Len(d.cols) |->
                 LET v == d.cols[c].vals[r] IN
                 IF v = NaN THEN NaNCell
                 ELSE IF d.cols[c].dtype = "object" THEN Cell("str", v, 1)
                 ELSE Cell("num", v, 1)]]]

\* --------------------------------------------------------- print_dataframe
\* df.head(n): the first n rows (all of them when there are fewer).
Head_(s, n) == SubSeq(s, 1, IF n < Len(s) THEN n ELSE Len(s))

\* Lines 92-101: the text of one cell.
FormatCell(c, colNumeric) ==
    IF IsNa(c) THEN [fmt |-> "NaN"]
    ELSE IF colNumeric THEN [fmt |-> "number", cell |-> c]
    ELSE [fmt |-> "str", cell |-> c]

\* Lines 108-113: the caption.  The three tests are tried in this order.
Caption(nrows, ncols, max_rows, max_cols) ==
    IF max_rows # 0 /\ nrows > max_rows
    THEN [kind |-> "rows", shown |-> <<max_rows>>, total |-> <<nrows>>]
    ELSE IF max_cols # 0 /\ ncols > max_cols
    THEN [kind |-> "columns", shown |-> <<max_cols>>, total |-> <<ncols>>]
    ELSE IF (max_rows # 0 /\ nrows > max_rows) /\ (max_cols # 0 /\ ncols > max_cols)
    THEN [kind |-> "rows, columns", shown |-> <<max_rows, max_cols>>, total |-> <<nrows, ncols>>]
    ELSE [kind |-> "none", shown |-> <<>>, total |-> <<>>]

\* print_dataframe(df, title, max_rows, max_cols, show_index, justify_numeric);
\* None is 0 for the two caps (both are tested by truth value) and "" for
\* the title.  [out, raised].
print_dataframe(f, title, max_rows, max_cols, show_index, justify_numeric) ==
    IF justify_numeric \notin {"left", "center", "right"}
    THEN [out |-> <<>>, raised |-> "ValueError"]
    ELSE IF Len(f.index) = 0 \/ Len(f.columns) = 0
    THEN [out |-> <<Line("DataFrame is empty", <<>>)>>, raised |-> "none"]
    ELSE
    LET rows == IF max_rows # 0 THEN Head_(f.index, max_rows) ELSE f.index
        ncol == IF max_cols # 0 /\ max_cols < Len(f.columns) THEN max_cols ELSE Len(f.columns)
        table ==
            [k |-> "table", text |-> "table", args |-> <<>>,
             title |-> title,
             header |-> (IF show_index THEN <<"Index">> ELSE <<>>)
                        \o [c \in 1..ncol |-> f.columns[c]],
             justify |-> (IF show_index THEN <<"right">> ELSE <<>>)
                         \o [c \in 1..ncol |-> IF f.numeric[c] THEN justify_numeric ELSE "left"],
             index |-> IF show_index THEN rows ELSE <<>>,
             rows |-> [r \in 1..Len(rows) |->
                          [c \in 1..ncol |-> FormatCell(f.data[r][c], f.numeric[c])]],
             caption |-> Caption(Len(f.index), Len(f.columns), max_rows, max_cols)]
    IN [out |-> <<table>>
                \o (IF max_rows # 0 \/ max_cols # 0
                    THEN <<Line("DataFrame shape", <<Len(f.index), Len(f.columns)>>)>>
                    ELSE <<>>),
        raised |-> "none"]

\* ---------------------------------------------------------- numeric_summary
\* The common denominator of one column's statistics over n values.
Scale(n) == IF n > 1 THEN 8 * n * (n - 1) ELSE 8

\* The k-th quartile of the sorted xs by linear interpolation, times Scale.
Quartile(xs, k) ==
    LET n == Len(xs)
        lo == ((n - 1) * k) \div 4
        rem == ((n - 1) * k) % 4
        four == 4 * xs[lo + 1] + (IF rem = 0 THEN 0 ELSE rem * (xs[lo + 2] - xs[lo + 1]))
    IN (Scale(n) \div 4) * four

\* DataFrame.describe(include='number') for one column: the eight rows
\* count, mean, std, min, 25%, 50%, 75%, max over the non-missing values.
\* std is the sample deviation (ddof = 1), missing for fewer than two values.
describe_number(col) ==
    LET xs == SortNumbers(NonMissing(col))
        n == Len(xs)
        S == Scale(n)
        sum == SumSeq(xs)
        sumsq == SumSeq([i \in 1..n |-> xs[i] * xs[i]])
        num(v) == Cell("num", v, S)
    IN IF n = 0
       THEN <<num(0), NaNCell, NaNCell, NaNCell, NaNCell, NaNCell, NaNCell, NaNCell>>
       ELSE <<num(S * n),
              num((S \div n) * sum),
              IF n = 1 THEN NaNCell ELSE Cell("sqrt", 64 * n * (n - 1) * (n * sumsq - sum * sum), S),
              num(S * xs[1]),
              num(Quartile(xs, 1)), num(Quartile(xs, 2)), num(Quartile(xs, 3)),
              num(S * xs[n])>>

\* a <= b for two cells of one column (kinds "num" and "sqrt", one scale).
CellLeq(a, b) ==
    CASE a.kind = "num" /\ b.kind = "num" -> a.v <= b.v
      [] a.kind = "sqrt" /\ b.kind = "num" -> b.v >= 0 /\ a.v <= b.v * b.v
      [] a.kind = "num" /\ b.kind = "sqrt" -> a.v <= 0 \/ a.v * a.v <= b.v
      [] OTHER -> a.v <= b.v

RECURSIVE InsertCell(_, _)
InsertCell(x, s) ==
    IF s = <<>> THEN <<x>>
    ELSE IF CellLeq(Head(s), x) THEN <<Head(s)>> \o InsertCell(x, Tail(s))
    ELSE <<x>> \o s

RECURSIVE SortCells(_)
SortCells(s) ==
    IF s = <<>> THEN <<>> ELSE InsertCell(s[Len(s)], SortCells(SubSeq(s, 1, Len(s) - 1)))

\* Series.median() of a column of cells: missing cells are skipped, the
\* middle cell of the rest, or halfway between the two middle cells.
median(cells) ==
    LET t == SortCells(SelectSeq(cells, LAMBDA c : ~IsNa(c)))
        m == Len(t)
    IN IF m = 0 THEN NaNCell
       ELSE IF m % 2 = 1 THEN [kind |-> "mid", lo |-> t[(m + 1) \div 2], hi |-> t[(m + 1) \div 2]]
       ELSE [kind |-> "mid", lo |-> t[m \div 2], hi |-> t[m \div 2 + 1]]

DescribeIndex == <<"count", "mean", "std", "min", "25%", "50%", "75%", "max">>

\* Lines 120-123: the describe() frame of the numeric columns, and three rows
\* added to it.  Each added row is computed from a fresh describe() frame,
\* column by column over that frame's eight rows.
numeric_summary_frame(d) ==
    LET idx == select_dtypes(d, {"number"})
        desc == [j \in 1..Len(idx) |-> describe_number(d.cols[idx[j]])]
    IN [index |-> DescribeIndex \o <<"median", "skew", "kurtosis">>,
        columns |-> ColumnNames(d, idx),
        numeric |-> [j \in 1..Len(idx) |-> TRUE],
        data |-> [r \in 1..8 |-> [j \in 1..Len(idx) |-> desc[j][r]]]
                 \o <<[j \in 1..Len(idx) |-> median(desc[j])],
                      [j \in 1..Len(idx) |-> [kind |-> "moment", order |-> 3]],
                      [j \in 1..Len(idx) |-> [kind |-> "moment", order |-> 4]]>>]

numeric_summary_body(d) ==
    IF Len(select_dtypes(d, {"number"})) > 0
    THEN LET summary == numeric_summary_frame(d)
             p == print_dataframe(summary, "", 0, 0, TRUE, "right")
         IN Result(p.out, [m |-> "numeric_summary", summary |-> summary], p.raised)
    ELSE Result(<<Line("No numeric data exists in dataset...", <<>>)>>,
                [m |-> "numeric_summary",
                 summary |-> [index |-> <<>>, columns |-> <<>>, numeric |-> <<>>, data |-> <<>>]],
                "none")

\* ----------------------------------------------------- categorical_summary
N_MAX == 10

RECURSIVE Distinct(_)
\* The distinct elements of xs in the order they are first met.
Distinct(xs) ==
    IF xs = <<>> THEN <<>>
    ELSE LET rest == Distinct(SubSeq(xs, 1, Len(xs) - 1))
             x == xs[Len(xs)]
         IN IF x \in SeqToSet(rest) THEN rest ELSE Append(rest, x)

Occurrences(xs, v) == Cardinality({i \in 1..Len(xs) : xs[i] = v})

\* Series.nunique(): distinct non-missing values.
nunique(col) == Cardinality(SeqToSet(NonMissing(col)))

\* Series.value_counts(): [item, count] for each distinct non-missing value,
\* most frequent first, equal counts in the order first met.
value_counts(col) ==
    LET xs == NonMissing(col)
        items == Distinct(xs)
    IN Vals(SortByKey([i \in 1..Len(items) |->
                [key |-> 0 - Occurrences(xs, items[i]),
                 val |-> [item |-> items[i], count |-> Occurrences(xs, items[i])]]]))

\* Series.mode().to_list(): the values of the highest count, ascending.
mode(col) ==
    LET vc == value_counts(col)
    IN IF vc = <<>> THEN <<>>
       ELSE SortNumbers([i \in 1..Len(SelectSeq(vc, LAMBDA e : e.count = vc[1].count)) |-> vc[i].item])

\* pd.Series(dict).reset_index() with the columns renamed Item, Count.
ItemCountFrame(entries) ==
    [index |-> [i \in 1..Len(entries) |-> i - 1],
     columns |-> <<"Item", "Count">>,
     numeric |-> <<FALSE, TRUE>>,
     data |-> [i \in 1..Len(entries) |->
                 <<Cell("str", entries[i].item, 1), Cell("num", entries[i].count, 1)>>]]

\* DataFrame.describe(include='object'): count, unique, top, freq.
describe_object(d, idx) ==
    [index |-> <<"count", "unique", "top", "freq">>,
     columns |-> ColumnNames(d, idx),
     numeric |-> [j \in 1..Len(idx) |-> FALSE],
     data |-> LET vc(j) == value_counts(d.cols[idx[j]]) IN
              <<[j \in 1..Len(idx) |-> Cell("num", Len(NonMissing(d.cols[idx[j]])), 1)],
                [j \in 1..Len(idx) |-> Cell("num", nunique(d.cols[idx[j]]), 1)],
                [j \in 1..Len(idx) |-> IF vc(j) = <<>> THEN NaNCell ELSE Cell("str", vc(j)[1].item, 1)],
                [j \in 1..Len(idx) |-> IF vc(j) = <<>> THEN NaNCell ELSE Cell("num", vc(j)[1].count, 1)]>>]

\* The listing with the cut-off test n_unique_items < N_MAX.
unique_listing_strict(col) ==
    IF nunique(col) < N_MAX
    THEN [n_unique |-> nunique(col), frame |-> ItemCountFrame(value_counts(col)),
          out |-> print_dataframe(ItemCountFrame(value_counts(col)), "", 0, 0, FALSE, "right").out,
          raised |-> "none"]
    ELSE [n_unique |-> nunique(col), frame |-> ItemCountFrame(<<>>),
          out |-> <<Line("Number of unique items > N_MAX. Skipping item listing...", <<N_MAX>>)>>,
          raised |-> "none"]

\* Lines 150-159: the unique-item count of one column and its listing.
\* [n_unique, frame, out, raised]
unique_listing(col) ==
    LET n_unique_items == nunique(col) IN
    IF n_unique_items <= N_MAX
    THEN LET printPd == ItemCountFrame(value_counts(col))
             p == print_dataframe(printPd, "", 0, 0, FALSE, "right")
         IN [n_unique |-> n_unique_items, frame |-> printPd, out |-> p.out, raised |-> p.raised]
    ELSE [n_unique |-> n_unique_items, frame |-> ItemCountFrame(<<>>),
          out |-> <<Line("Number of unique items > N_MAX. Skipping item listing...", <<N_MAX>>)>>,
          raised |-> "none"]

\* Lines 162-170: the most frequent items of one column.
mode_listing(col) ==
    LET most_frequent_col_items == mode(col) IN
    IF Len(most_frequent_col_items) <= N_MAX
    THEN LET vc == value_counts(col)
             itemDict == [i \in 1..Len(most_frequent_col_items) |->
                             [item |-> most_frequent_col_items[i],
                              count |-> (CHOOSE e \in SeqToSet(vc) : e.item = most_frequent_col_items[i]).count]]
             p == print_dataframe(ItemCountFrame(itemDict), "", 0, 0, FALSE, "right")
         IN [out |-> <<Line("Highest frequency items:", <<>>)>> \o p.out, raised |-> p.raised]
    ELSE [out |-> <<Line("There are >N_MAX items at high frequency. Skipping item listing...", <<N_MAX>>)>>,
          raised |-> "none"]

\* The body of the loop of lines 147-170 for one column.
column_report(c) ==
    <<Line("~~~~~~~~~~~~~~~~", <<80>>),
      Line("Categorical feature (column)", <<c.name>>),
      Line("Number of unique items", <<nunique(c)>>)>>
    \o unique_listing(c).out \o mode_listing(c).out

RECURSIVE PerColumn(_, _, _)
\* The loop of lines 147-170 from the j-th categorical column on.
PerColumn(d, list, j) ==
    IF j > Len(list) THEN <<>>
    ELSE column_report(d.cols[list[j]]) \o PerColumn(d, list, j + 1)

categorical_summary_body(d) ==
    LET categorical_columns_list == select_dtypes(d, {"object"})
        n == Len(categorical_columns_list)
        col(j) == d.cols[categorical_columns_list[j]]
    IN IF n > 0
       THEN LET high == print_dataframe(describe_object(d, categorical_columns_list), "", 0, 0, TRUE, "right")
            IN Result(<<Line("High level summary of categorical columns:", <<>>)>>
                      \o high.out \o PerColumn(d, categorical_columns_list, 1),
                      [m |-> "categorical_summary",
                       columns |-> [j \in 1..n |->
                           [name |-> col(j).name,
                            n_unique |-> unique_listing(col(j)).n_unique,
                            frame |-> unique_listing(col(j)).frame,
                            listing |-> unique_listing(col(j)).out]]],
                      "none")
       ELSE Result(<<Line("No categorical data exists in dataset...", <<>>)>>,
                   [m |-> "categorical_summary", columns |-> <<>>], "none")

\* ---------------------------------------------------- correlation_analysis
\* The rows on which both columns hold a value (pandas correlates pairwise
\* complete observations).
PairRows(x, y) ==
    SelectSeq([i \in 1..Len(x.vals) |-> i], LAMBDA i : x.vals[i] # NaN /\ y.vals[i] # NaN)

\* Pearson's r of the value sequences a and b as the cell
\* [kind |-> "corr", cov, vv], r = cov / sqrt(vv); missing when a sequence is
\* empty or constant.
PearsonOf(a, b) ==
    LET n == Len(a)
        sa == SumSeq(a)
        sb == SumSeq(b)
        cov == n * SumSeq([i \in 1..n |-> a[i] * b[i]]) - sa * sb
        va == n * SumSeq([i \in 1..n |-> a[i] * a[i]]) - sa * sa
        vb == n * SumSeq([i \in 1..n |-> b[i] * b[i]]) - sb * sb
    IN IF n = 0 \/ va * vb = 0 THEN NaNCell
       ELSE [kind |-> "corr", cov |-> cov, vv |-> va * vb]

\* Twice the average rank of each element of a among a.
Ranks(a) ==
    [i \in 1..Len(a) |->
        2 * Cardinality({j \in 1..Len(a) : a[j] < a[i]})
        + Cardinality({j \in 1..Len(a) : a[j] = a[i]}) + 1]

\* One cell of numeric_df.corr(method=...).
corr_cell(x, y, method) ==
    LET rows == PairRows(x, y)
        a == [k \in 1..Len(rows) |-> x.vals[rows[k]]]
        b == [k \in 1..Len(rows) |-> y.vals[rows[k]]]
    IN IF method = "pearson" THEN PearsonOf(a, b) ELSE PearsonOf(Ranks(a), Ranks(b))

\* numeric_df.corr(method=...) as a frame labelled by the numeric columns.
corr(d, idx, method) ==
    [index |-> ColumnNames(d, idx),
     columns |-> ColumnNames(d, idx),
     numeric |-> [j \in 1..Len(idx) |-> TRUE],
     data |-> [i \in 1..Len(idx) |-> [j \in 1..Len(idx) |->
                 corr_cell(d.cols[idx[i]], d.cols[idx[j]], method)]]]

\* The threshold test with >= in place of >.
IsStrongInclusive(c) == c.kind = "corr" /\ 4 * c.cov * c.cov >= c.vv

\* abs(corr_val) > 0.5; a missing coefficient compares False.
IsStrong(c) == c.kind = "corr" /\ 4 * c.cov * c.cov > c.vv

\* The first column index the inner loop visits for row i: range(i+1, n).
InnerStart(i) == i + 1

RECURSIVE ScanRow(_, _, _)
\* The inner loop from column j on: the pairs of row i that pass the test.
ScanRow(mat, i, j) ==
    IF j > Len(mat.columns) THEN <<>>
    ELSE (IF IsStrong(mat.data[i][j])
          THEN <<[col1 |-> mat.columns[i], col2 |-> mat.columns[j], corr_val |-> mat.data[i][j]]>>
          ELSE <<>>)
         \o ScanRow(mat, i, j + 1)

RECURSIVE ScanRows(_, _)
\* The outer loop from row i on.
ScanRows(mat, i) ==
    IF i > Len(mat.columns) THEN <<>>
    ELSE ScanRow(mat, i, InnerStart(i)) \o ScanRows(mat, i + 1)

\* Lines 208-215 and 231-238: the scan of the upper triangle.
strong_corrs(mat) == ScanRows(mat, 1)

\* Lines 217-221 and 240-244: the listed pairs, or the 'none found' line.
StrongLines(method, strong) ==
    IF Len(strong) > 0
    THEN [k \in 1..Len(strong) |-> Line("pair", <<method, strong[k].col1, strong[k].col2, strong[k].corr_val>>)]
    ELSE <<Line("No strong correlations found !", <<method>>)>>

\* One of the two sections: heading, matrix, criterion, pairs.
corr_section(d, idx, method) ==
    LET mat == corr(d, idx, method)
        p == print_dataframe(mat, "", 0, 0, TRUE, "center")
        strong == strong_corrs(mat)
    IN [matrix |-> mat, strong |-> strong,
        out |-> <<Line("Correlation Matrix:", <<method>>)>> \o p.out
                \o <<Line("Strong Correlations Criterion: |r| > 0.5", <<method>>)>>
                \o StrongLines(method, strong)]

NoCorr == [matrix |-> [index |-> <<>>, columns |-> <<>>, numeric |-> <<>>, data |-> <<>>],
           strong |-> <<>>, out |-> <<>>]

correlation_analysis_body(d) ==
    LET numeric_columns == select_dtypes(d, {"number"})
        n == Len(numeric_columns)
        loc(p, s) == [m |-> "correlation_analysis", numeric_columns |-> ColumnNames(d, numeric_columns),
                      pearson |-> [matrix |-> p.matrix, strong |-> p.strong],
                      spearman |-> [matrix |-> s.matrix, strong |-> s.strong]]
    IN IF n = 0
       THEN Result(<<Line("No numerical data found in dataset...", <<>>)>>, loc(NoCorr, NoCorr), "none")
       ELSE IF n < 2
       THEN Result(<<Line("Found only 1 numeric column(s). At least 2 numeric columns are required", <<n>>)>>,
                   loc(NoCorr, NoCorr), "none")
       ELSE LET pe == corr_section(d, numeric_columns, "pearson")
                sp == corr_section(d, numeric_columns, "spearman")
            IN Result(<<Line("Found numeric columns in dataset", <<n>>)>>
                      \o [i \in 1..n |-> Line("enum", <<i, d.cols[numeric_columns[i]].name>>)]
                      \o pe.out \o sp.out,
                      loc(pe, sp), "none")

\* ----------------------------------------------------------- the class
\* The methods the class body defines (lines 36-244), with their banners.
DataInsightsMethods ==
    {"basic_info", "missing_values_analysis", "data_types_summary",
     "numeric_summary", "categorical_summary", "correlation_analysis"}

Title(name) ==
    CASE name = "basic_info" -> "BASIC DATAFRAME INFORMATION"
      [] name = "missing_values_analysis" -> "MISSING VALUES ANALYSIS"
      [] name = "data_types_summary" -> "DATA TYPES SUMMARY"
      [] name = "numeric_summary" -> "NUMERIC COLUMNS STATISTICS"
      [] name = "categorical_summary" -> "CATEGORICAL COLUMNS STATISTICS"
      [] name = "correlation_analysis" -> "CORRELATION ANALYSIS (applicable to the numeric columns only)"
      [] OTHER -> "INITIALIZING DATA INSIGHTS OBJECT"

Body(name, d) ==
    CASE name = "basic_info" -> basic_info_body(d)
      [] name = "missing_values_analysis" -> missing_values_analysis_body(d)
      [] name = "data_types_summary" -> data_types_summary_body(d)
      [] name = "numeric_summary" -> numeric_summary_body(d)
      [] name = "categorical_summary" -> categorical_summary_body(d)
      [] OTHER -> correlation_analysis_body(d)

\* The method as the decorator leaves it in the class.
Decorated(name, d) == print_divider(Title(name), Body(name, d))

\* DataInsights(path) as the decorator leaves __init__: [df, out, raised, ...].
DecoratedInit(kind, table) ==
    LET b == init_body(kind, table)
        w == print_divider(Title("__init__"), Result(b.out, [m |-> "__init__"], b.raised))
    IN [df |-> b.df, out |-> w.out, local |-> w.local, raised |-> w.raised, ret |-> w.ret]

\* ----------------------------------------------------------- the callers
\* A call of a decorated method by a caller whose capture buffer holds prior.
Call(prior, w) ==
    /\ out' = prior \o w.out
    /\ local' = w.local
    /\ ret' = w.ret
    /\ err' = w.raised

InitCommon ==
    /\ srcKind \in {"ok", "notfound", "malformed"}
    /\ srcTable \in IF srcKind = "ok" THEN Tables ELSE {EmptyDataFrame}
    /\ obj = "none"
    /\ df = EmptyDataFrame
    /\ out = <<>>
    /\ ret = "None"
    /\ err = "none"
    /\ local = [m |-> "none"]

\* A caller that constructs the object and then calls its methods as it likes.
Init == InitCommon /\ mainPc = 0

\* dsObj = DataInsights(path); the name is bound only when no error is raised.
Construct ==
    /\ obj = "none"
    /\ err = "none"
    /\ \E w \in {DecoratedInit(srcKind, srcTable)} :
          /\ Call(<<>>, w)
          /\ df' = w.df
          /\ obj' = IF w.raised = "none" THEN "constructed" ELSE "none"
    /\ UNCHANGED <<srcKind, srcTable, mainPc>>

\* dsObj.name(): needs the object; reads self.df and assigns nothing to it.
MethodCall(name) ==
    /\ obj = "constructed"
    /\ \E w \in {Decorated(name, df)} : Call(<<>>, w)
    /\ UNCHANGED <<srcKind, srcTable, obj, df, mainPc>>

basic_info == MethodCall("basic_info")

\* missing_values_analysis assigning its filtered frame's columns to self.df.
missing_values_analysis_in_place ==
    /\ obj = "constructed"
    /\ \E w \in {Decorated("missing_values_analysis", df)} : Call(<<>>, w)
    /\ df' = [df EXCEPT !.cols = SelectSeq(df.cols, LAMBDA c : MissingCount(c) > 0)]
    /\ UNCHANGED <<srcKind, srcTable, obj, mainPc>>

missing_values_analysis == MethodCall("missing_values_analysis")

data_types_summary == MethodCall("data_types_summary")

numeric_summary == MethodCall("numeric_summary")

categorical_summary == MethodCall("categorical_summary")

correlation_analysis == MethodCall("correlation_analysis")

Next ==
    \/ Construct
    \/ basic_info
    \/ missing_values_analysis
    \/ data_types_summary
    \/ numeric_summary
    \/ categorical_summary
    \/ correlation_analysis

Spec == Init /\ [][Next]_vars

\* ------------------------------------------------------------ main.py
\* main(), statement by statement (lines 4-21).
MainStatements ==
    <<"welcome", "DataInsights", "basic_info", "missing_values_analysis", "data_types_summary",
      "numeric_summary", "numeric_distributions", "categorical_summary", "correlation_analysis",
      "prompt", "input">>

InitMain == InitCommon /\ mainPc = 1

\* main() has returned, or an exception has left it.
MainEnded == mainPc > Len(MainStatements) \/ err # "none"

\* The next statement of main().  A method is looked up on the object when it
\* is called; a name the class does not define raises AttributeError.  An
\* exception is not caught by main: it ends the run at that statement.
MainStep ==
    /\ mainPc \in 1..Len(MainStatements)
    /\ err = "none"
    /\ \E stmt \in {MainStatements[mainPc]} :
       \E w \in {CASE stmt = "DataInsights" -> DecoratedInit(srcKind, srcTable)
                   [] stmt \in DataInsightsMethods -> Decorated(stmt, df)
                   [] stmt = "welcome" ->
                        [out |-> <<Line("Welcome to Walmart-customer-behavior-insights!", <<>>)>>,
                         local |-> local, raised |-> "none", ret |-> "None"]
                   [] stmt = "prompt" ->
                        [out |-> <<Line("Press Enter key to exit the program...", <<>>)>>,
                         local |-> local, raised |-> "none", ret |-> "None"]
                   [] stmt = "input" ->
                        [out |-> <<>>, local |-> local, raised |-> "none", ret |-> "None"]
                   [] OTHER ->
                        [out |-> <<>>, local |-> [m |-> stmt],
                         raised |-> "AttributeError", ret |-> "raised"]} :
          /\ Call(out, w)
          /\ df' = IF stmt = "DataInsights" THEN w.df ELSE df
          /\ obj' = IF stmt = "DataInsights" /\ w.raised = "none" THEN "constructed" ELSE obj
          /\ mainPc' = IF w.raised = "none" THEN mainPc + 1 ELSE mainPc
    /\ UNCHANGED <<srcKind, srcTable>>

SpecMain == InitMain /\ [][MainStep]_vars

\* ------------------------------------------- print_dataframe on its own
\* A frame of r rows and c columns, odd columns int64, even columns object.
GridFrame(r, c) ==
    DfFrame([nrows |-> r,
             cols |-> [i \in 1..c |->
                 [name |-> Names[i],
                  dtype |-> IF i % 2 = 1 THEN "int64" ELSE "object",
                  vals |-> [j \in 1..r |-> j]]]])

InitPrinter ==
    /\ srcKind = "notfound"
    /\ srcTable = EmptyDataFrame
    /\ obj = "none"
    /\ df = EmptyDataFrame
    /\ out = <<>>
    /\ ret = "None"
    /\ err = "none"
    /\ local = [m |-> "none"]
    /\ mainPc = 0

\* One call prt.print_dataframe(frame, title, max_rows, max_cols, show_index,
\* justify_numeric) on a fresh console.
print_dataframe_call ==
    /\ local.m = "none"
    /\ \E r \in 0..MaxCap, c \in 1..Len(Names), max_rows \in 0..MaxCap, max_cols \in 0..MaxCap,
       show_index \in BOOLEAN, justify_numeric \in {"left", "center", "right", "middle"} :
        \E p \in {print_dataframe(GridFrame(r, c), "", max_rows, max_cols, show_index, justify_numeric)} :
           /\ out' = p.out
           /\ err' = p.raised
           /\ ret' = IF p.raised = "none" THEN "None" ELSE "raised"
           /\ local' = [m |-> "print_dataframe", nrows |-> r, ncols |-> c,
                        max_rows |-> max_rows, max_cols |-> max_cols]
           /\ UNCHANGED <<srcKind, srcTable, obj, df, mainPc>>

SpecPrinter == InitPrinter /\ [][print_dataframe_call]_vars

\* ================================================================ claims
\* ------------------------------------------------- helpers of the claims
\* The position of a label in a sequence of distinct labels.
Pos(labels, name) == CHOOSE i \in 1..Len(labels) : labels[i] = name

\* |r| > 0.5 for a coefficient r = cov / sqrt(vv): r * r > 1/4.
ExceedsHalf(c) == c.kind = "corr" /\ 4 * c.cov * c.cov > c.vv

\* The list L of one correlation section is the row-major upper-triangle
\* enumeration of the pairs of matrix M whose |r| exceeds 0.5.
StrongListOK(sec) ==
    LET M == sec.matrix
        L == sec.strong
        n == Len(M.columns)
    IN /\ \A i, j \in 1..n :
            (\E k \in 1..Len(L) : L[k].col1 = M.columns[i] /\ L[k].col2 = M.columns[j])
            <=> (i < j /\ ExceedsHalf(M.data[i][j]))
       /\ \A k, l \in 1..Len(L) :
            k < l => \/ Pos(M.columns, L[k].col1) < Pos(M.columns, L[l].col1)
                     \/ /\ L[k].col1 = L[l].col1
                        /\ Pos(M.columns, L[k].col2) < Pos(M.columns, L[l].col2)
       /\ \A k \in 1..Len(L) :
            L[k].corr_val = M.data[Pos(M.columns, L[k].col1)][Pos(M.columns, L[k].col2)]

\* What the section of the given method printed matches its list: the pairs
\* in order, and the 'none found' line exactly when the list is empty.
StrongOutputOK(method, sec) ==
    LET pairs == SelectSeq(out, LAMBDA it : it.text = "pair" /\ it.args[1] = method)
        none == SelectSeq(out, LAMBDA it : it.text = "No strong correlations found !" /\ it.args[1] = method)
    IN /\ Len(pairs) = Len(sec.strong)
       /\ \A k \in 1..Len(pairs) :
            /\ pairs[k].args[2] = sec.strong[k].col1
            /\ pairs[k].args[3] = sec.strong[k].col2
            /\ pairs[k].args[4] = sec.strong[k].corr_val
       /\ (Len(none) = 1) <=> (sec.strong = <<>>)
       /\ Len(none) <= 1
       /\ \E i \in 1..Len(out) : out[i].text = "Correlation Matrix:" /\ out[i].args[1] = method

\* C1: in correlation_analysis with at least two numeric columns, for the
\* Pearson and for the Spearman matrix, the printed strong list holds a pair
\* (A,B) iff A precedes B in the numeric column order and |r(A,B)| > 0.5, no
\* pair twice or in both orientations, in row-major upper-triangle order, and
\* the 'no strong correlations' line is printed exactly when there is none.
C1_StrongPairs ==
    (local.m = "correlation_analysis" /\ Len(local.numeric_columns) >= 2) =>
        /\ local.pearson.matrix.columns = local.numeric_columns
        /\ local.spearman.matrix.columns = local.numeric_columns
        /\ StrongListOK(local.pearson) /\ StrongOutputOK("pearson", local.pearson)
        /\ StrongListOK(local.spearman) /\ StrongOutputOK("spearman", local.spearman)

\* Three numeric columns: the pair (A,B) has a coefficient of exactly 0.5 in
\* absolute value and is left out, the pair (B,C) is the one listed.
C1_Witness ==
    /\ local.m = "correlation_analysis"
    /\ Len(local.numeric_columns) = 3
    /\ Len(local.pearson.strong) = 1
    /\ local.pearson.strong[1].col1 = "B"
    /\ local.pearson.strong[1].col2 = "C"
    /\ LET c == local.pearson.matrix.data[1][2]
       IN c.kind = "corr" /\ 4 * c.cov * c.cov = c.vv

\* The number a 'mid' cell stands for equals the number of the cell q.
MidEquals(mid, q) ==
    /\ mid.kind = "mid"
    /\ q.kind = "num"
    /\ CASE mid.lo.kind = "num" /\ mid.hi.kind = "num" -> mid.lo.v + mid.hi.v = 2 * q.v
         [] mid.lo.kind = "sqrt" ->
                2 * q.v - mid.hi.v >= 0 /\ (2 * q.v - mid.hi.v) * (2 * q.v - mid.hi.v) = mid.lo.v
         [] OTHER ->
                2 * q.v - mid.lo.v >= 0 /\ (2 * q.v - mid.lo.v) * (2 * q.v - mid.lo.v) = mid.hi.v

\* C2: in the statistics table of numeric_summary, for every numeric column
\* (with at least one value) the value in the row 'median' equals the value
\* in the row '50%'.
C2_MedianEquals50 ==
    (local.m = "numeric_summary" /\ Len(local.summary.columns) > 0) =>
        \A j \in 1..Len(local.summary.columns) :
            LET q50 == local.summary.data[Pos(local.summary.index, "50%")][j]
            IN ~IsNa(q50) =>
                MidEquals(local.summary.data[Pos(local.summary.index, "median")][j], q50)

\* C3: the three column lists of data_types_summary are pairwise disjoint and
\* their union is exactly the table's set of columns.
C3_Partition ==
    local.m = "data_types_summary" =>
        LET N == SeqToSet(local.numeric_columns)
            C == SeqToSet(local.categorical_columns)
            D == SeqToSet(local.datetime_columns)
        IN /\ N \cap C = {} /\ N \cap D = {} /\ C \cap D = {}
           /\ N \cup C \cup D = {df.cols[i].name : i \in 1..Len(df.cols)}

\* The missing cells of a table, counted cell by cell.
MissingCells(d) ==
    {<<c, r>> \in (1..Len(d.cols)) \X (1..d.nrows) : d.cols[c].vals[r] = NaN}

MissingIn(d, c) == Cardinality({r \in 1..d.nrows : d.cols[c].vals[r] = NaN})

\* C4: for a table with k > 0 missing cells the frame built by
\* missing_values_analysis lists exactly the columns with a non-zero missing
\* count, ascending by that count, every row's 'Percentage Missing' being
\* k*100/(rows*cols); with k = 0 only the 'no missing elements' line is printed.
C4_MissingRecord ==
    local.m = "missing_values_analysis" =>
        LET rec == local.missing_record_df
            k == Cardinality(MissingCells(df))
            with == {c \in 1..Len(df.cols) : MissingIn(df, c) > 0}
        IN /\ k > 0 =>
                /\ Len(rec) = Cardinality(with)
                /\ {rec[i].Columns : i \in 1..Len(rec)} = {df.cols[c].name : c \in with}
                /\ \A i \in 1..Len(rec) :
                    /\ rec[i].MissingElements = MissingIn(df, Pos([c \in 1..Len(df.cols) |-> df.cols[c].name], rec[i].Columns))
                    /\ rec[i].PercentageMissing.den # 0
                    /\ rec[i].PercentageMissing.num * (df.nrows * Len(df.cols))
                       = k * 100 * rec[i].PercentageMissing.den
                /\ \A i, j \in 1..Len(rec) : i < j => rec[i].MissingElements <= rec[j].MissingElements
           /\ k = 0 =>
                /\ rec = <<>>
                /\ Len(out) = 4
                /\ out[4].text = "There are no missing elements in the dataset !!"

\* Two columns with different missing counts, listed against column order.
C4_Witness ==
    /\ local.m = "missing_values_analysis"
    /\ Len(local.missing_record_df) = 2
    /\ local.missing_record_df[1].Columns = "B"
    /\ local.missing_record_df[1].MissingElements < local.missing_record_df[2].MissingElements

\* The column of the loaded table with the given name.
ColumnNamed(d, name) == d.cols[Pos([c \in 1..Len(d.cols) |-> d.cols[c].name], name)]

DistinctValues(col) == {col.vals[r] : r \in 1..Len(col.vals)} \ {NaN}

\* The frequency table of a column was drawn on the console.
Rendered(c) == \E i \in 1..Len(c.listing) : c.listing[i].k = "table"

\* The drawn frequency table has one (Item, Count) row per distinct
\* non-missing value, and its counts add up to the non-missing rows.
FrequencyTableOK(c) ==
    LET col == ColumnNamed(df, c.name)
        t == c.listing[1]
    IN /\ t.header = <<"Item", "Count">>
       /\ Len(t.rows) = Cardinality(DistinctValues(col))
       /\ {t.rows[r][1].cell.v : r \in 1..Len(t.rows)} = DistinctValues(col)
       /\ \A r \in 1..Len(t.rows) :
            t.rows[r][2].cell.v = Cardinality({q \in 1..Len(col.vals) : col.vals[q] = t.rows[r][1].cell.v})
       /\ SumSeq([r \in 1..Len(t.rows) |-> t.rows[r][2].cell.v])
          = Cardinality({q \in 1..Len(col.vals) : col.vals[q] # NaN})

\* C5 as stated: for every categorical column with unique-value count u the
\* frequency table is rendered iff u <= 10 (otherwise the 'skipping' line),
\* and a rendered table has one row per distinct non-missing value, its
\* counts adding up to the column's non-missing rows.
C5_RenderedIffAtMostTen ==
    local.m = "categorical_summary" =>
        \A j \in 1..Len(local.columns) :
            LET c == local.columns[j]
                u == Cardinality(DistinctValues(ColumnNamed(df, c.name)))
            IN /\ Rendered(c) <=> u <= 10
               /\ Rendered(c) => FrequencyTableOK(c)

\* C5 amended: the frequency table is rendered iff 1 <= u <= 10; with u > 10
\* the 'skipping' line is printed, with u = 0 the printer's 'DataFrame is
\* empty' notice; a rendered table has one row per distinct non-missing
\* value, its counts adding up to the column's non-missing rows.
C5_RenderedIffOneToTen ==
    local.m = "categorical_summary" =>
        \A j \in 1..Len(local.columns) :
            LET c == local.columns[j]
                u == Cardinality(DistinctValues(ColumnNamed(df, c.name)))
            IN /\ c.n_unique = u
               /\ Rendered(c) <=> (1 <= u /\ u <= 10)
               /\ Rendered(c) => FrequencyTableOK(c)
               /\ u > 10 <=> (Len(c.listing) = 1
                              /\ c.listing[1].text = "Number of unique items > N_MAX. Skipping item listing...")
               /\ u = 0 <=> (Len(c.listing) = 1 /\ c.listing[1].text = "DataFrame is empty")

\* A column of exactly ten distinct values and a missing cell, its table drawn.
C5_Witness ==
    /\ local.m = "categorical_summary"
    /\ \E j \in 1..Len(local.columns) :
        /\ Rendered(local.columns[j])
        /\ local.columns[j].n_unique = N_MAX
        /\ NaN \in SeqToSet(ColumnNamed(df, local.columns[j].name).vals)

\* C6: print_dataframe's caption tells three cases apart: only rows
\* truncated, only columns truncated, both truncated (rows and columns).
C6_CaptionCases ==
    (local.m = "print_dataframe" /\ Len(out) > 0 /\ out[1].k = "table") =>
        LET rowsCut == local.max_rows # 0 /\ local.max_rows < local.nrows
            colsCut == local.max_cols # 0 /\ local.max_cols < local.ncols
            cap == out[1].caption
        IN /\ (rowsCut /\ ~colsCut) => cap.kind = "rows"
           /\ (colsCut /\ ~rowsCut) => cap.kind = "columns"
           /\ (rowsCut /\ colsCut) =>
                (cap.kind = "rows, columns" /\ cap.shown = <<local.max_rows, local.max_cols>>
                 /\ cap.total = <<local.nrows, local.ncols>>)

\* C7: every call of an analysis method emits the three banner lines before
\* anything else, on every path, and returns None.
C7_BannerFirst ==
    local.m \in DataInsightsMethods =>
        /\ Len(out) >= 4
        /\ out[1].text = Divider.text
        /\ out[2].text = Title(local.m)
        /\ out[3].text = Divider.text
        /\ \A i \in 4..Len(out) : out[i].text # Divider.text /\ out[i].text # Title(local.m)
        /\ ret = "None"
        /\ err = "none"

\* The early return of correlation_analysis with a single numeric column.
C7_Witness ==
    /\ local.m = "correlation_analysis"
    /\ Len(local.numeric_columns) = 1
    /\ Len(out) = 4
    /\ ret = "None"

\* C8: when loading fails in the constructor, a failure line that differs
\* between 'not found' and 'malformed' is printed, the success line never,
\* and the error reaches the caller: no object, and no method ever runs.
C8_LoadFailure ==
    srcKind # "ok" =>
        /\ obj = "none"
        /\ local.m \in {"none", "__init__"}
        /\ local.m = "__init__" =>
            /\ err = (IF srcKind = "notfound" THEN "FileNotFoundError" ELSE "ParserError")
            /\ ret = "raised"
            /\ Len(out) = 4
            /\ out[4].text = (IF srcKind = "notfound" THEN "File not found" ELSE "Error loading data")
            /\ \A i \in 1..Len(out) : out[i].text # "Data loaded successfully"

C8_Witness ==
    /\ srcKind = "malformed"
    /\ local.m = "__init__"
    /\ err = "ParserError"
    /\ out[4].text = "Error loading data"

\* C9: after any sequence of method calls self.df is the table as loaded,
\* and the output of the last call is the one the loaded table determines.
C9_TableUnchanged ==
    obj = "constructed" =>
        /\ df = srcTable
        /\ local.m \in DataInsightsMethods => out = Decorated(local.m, srcTable).out

\* The table after the method that filters and sorts an intermediate frame.
C9_Witness ==
    /\ obj = "constructed"
    /\ local.m = "missing_values_analysis"
    /\ Len(local.missing_record_df) = 2
    /\ df = srcTable

\* The banner titles among the lines printed so far, in order.
SectionsPrinted ==
    LET titles == {Title(name) : name \in DataInsightsMethods}
        lines == SelectSeq(out, LAMBDA it : it.k = "line" /\ it.text \in titles)
    IN [i \in 1..Len(lines) |-> lines[i].text]

\* C10: when the source loads, main() emits the six report sections in
\* order and reaches the 'press Enter to exit' prompt without an error.
C10_MainCompletes ==
    (srcKind = "ok" /\ MainEnded) =>
        /\ err = "none"
        /\ mainPc > Len(MainStatements)
        /\ SectionsPrinted = <<Title("basic_info"), Title("missing_values_analysis"),
                               Title("data_types_summary"), Title("numeric_summary"),
                               Title("categorical_summary"), Title("correlation_analysis")>>
        /\ \E i \in 1..Len(out) : out[i].text = "Press Enter key to exit the program..."
====
